---- MODULE Spec2Model ----
(***************************************************************************)
(* Model of loxodo's Vault (src/src/vault.py): the PasswordSafe V3         *)
(* container codec, the load state machine of read_from_file and the      *)
(* temp-file-then-rename protocol of write_to_file.                       *)
(*                                                                         *)
(* Representation.                                                         *)
(*  - A field value is a sequence of bytes (0..255).                       *)
(*  - The fixed-size members of a container (tag, salt, iter, H(P'),       *)
(*    B1..B4, IV) are "items" [v, n, mod]: the first n bytes of the byte   *)
(*    string named v, with at most one byte (index mod[1], 0-based)        *)
(*    XOR-ed with mod[2].  n = -1 is Python's None.                        *)
(*  - The rest of a file is a sequence of 16-byte units: a Twofish-CBC     *)
(*    ciphertext block, the clear end-of-file marker, or one half of the   *)
(*    32-byte HMAC.                                                        *)
(*  - SHA-256, HMAC-SHA-256 and Twofish are symbolic and collision free:   *)
(*    a digest is the term of what was hashed, a ciphertext block is the   *)
(*    term of its key and plaintext.  Decrypting a block that was          *)
(*    modified, or with another key, yields a block chosen by the          *)
(*    environment (Garbage); a modified predecessor block XORs the         *)
(*    modification into the plaintext, as CBC does.                        *)
(***************************************************************************)
EXTENDS Integers, Sequences, FiniteSets, TLC

\* ------------------------------------------------------------------ bounds
MaxCalls   == 3   \* top-level calls of read_from_file / write_to_file
MaxEdits   == 1   \* caller edits of the Vault between calls
MaxCorrupt == 1   \* modifications of a file by the environment
MaxIter    == 8   \* iterations handed to _stretch_password
MaxOps     == 3   \* method calls on one Record

\* ------------------------------------------------------- program constants
BlockSize    == 16     \* filehandle.read(16)
FirstChunk   == 11     \* if (raw_len > 11)
MaxFieldLen  == 1024   \* if (raw_len > 1024)
EndOfRecord  == 255    \* raw_type == 0xff
HmacSize     == 32     \* filehandle.read(32)

\* ------------------------------------------------------------ byte helpers
Min(a, b) == IF a < b THEN a ELSE b
Max(a, b) == IF a > b THEN a ELSE b

Rep(b, n) == [i \in 1..n |-> b]

RECURSIVE XorByte(_, _)
XorByte(a, b) ==
  IF a = 0 /\ b = 0 THEN 0
  ELSE (((a % 2) + (b % 2)) % 2) + (2 * XorByte(a \div 2, b \div 2))

RECURSIVE Pow256(_)
Pow256(j) == IF j = 0 THEN 1 ELSE 256 * Pow256(j - 1)

\* struct.pack("<L", n)
PackLE32(n) ==
  << n % 256, (n \div 256) % 256, (n \div 65536) % 256, (n \div 16777216) % 256 >>

\* struct.unpack("<L", s)[0]
UnpackLE32(s) == s[1] + (256 * s[2]) + (65536 * s[3]) + (16777216 * s[4])

NoMod == << -1, 0 >>

\* the byte string s with the byte at 0-based index mod[1] XOR-ed with mod[2]
ApplyMod(s, mod) ==
  IF mod[1] >= 0 /\ mod[1] < Len(s)
    THEN [s EXCEPT ![mod[1] + 1] = XorByte(@, mod[2])]
    ELSE s

\* ------------------------------------------------------------------- items
Item(v, n) == [v |-> v, n |-> n, mod |-> NoMod]
NoneStr    == Item("None", -1)
IsNone(x)  == x.n = -1

\* Python's == on two byte strings
BytesEq(a, b) == a.n = b.n /\ (a.n <= 0 \/ (a.v = b.v /\ a.mod = b.mod))

\* the first n bytes of an item (what a read returns from a shorter file)
Prefix(x, n) ==
  [v |-> x.v, n |-> Min(x.n, Max(n, 0)),
   mod |-> IF x.mod[1] < Min(x.n, Max(n, 0)) THEN x.mod ELSE NoMod]

Pws3Tag == Item("PWS3", 4)

\* ------------------------------------------------------- symbolic SHA-256
\* A digest is [pw, salt, n]: SHA-256 applied n times, the first time to
\* password + salt.
NoDigest == [pw |-> "None", salt |-> NoneStr, n |-> 0]
NoneDig  == [v |-> NoDigest, n |-> -1, mod |-> NoMod]

\* hashlib.sha256(); update(password); update(salt); digest()
Sha256Init(password, salt) == [pw |-> password, salt |-> salt, n |-> 1]
\* hashlib.sha256(digest).digest()
Sha256(d) == [d EXCEPT !.n = @ + 1]

RECURSIVE StretchLoop(_, _)
StretchLoop(stretched_password, remaining) ==
  IF remaining <= 0 THEN stretched_password
  ELSE StretchLoop(Sha256(stretched_password), remaining - 1)

\* _stretch_password whose loop runs one time short (range(1, iterations))
_stretch_password_one_short(password, salt, iterations) ==
  StretchLoop(Sha256Init(password, salt), iterations - 1)

_stretch_password(password, salt, iterations) ==
  StretchLoop(Sha256Init(password, salt), iterations)

\* ------------------------------------------------------- symbolic Twofish
\* TwofishECB(stretched).decrypt(b1) + decrypt(b2)
UnwrapKey(stretched, ba, bb) == [sk |-> stretched, ba |-> ba, bb |-> bb]
NoKey == UnwrapKey(NoDigest, NoneStr, NoneStr)

\* HMAC(key_l, "", sha256) after update(msg)
Hmac(key, msg) == [key |-> key, msg |-> msg]
NoHmac == Hmac(NoKey, <<>>)

\* the three kinds of 16-byte unit behind the IV
CtUnit(key, plain) ==
  [k |-> "ct", key |-> key, plain |-> plain, mac |-> NoHmac, half |-> 0, mod |-> NoMod]
EofUnit ==
  [k |-> "eof", key |-> NoKey, plain |-> <<>>, mac |-> NoHmac, half |-> 0, mod |-> NoMod]
MacUnit(mac, half) ==
  [k |-> "mac", key |-> NoKey, plain |-> <<>>, mac |-> mac, half |-> half, mod |-> NoMod]

\* data == "PWS3-EOFPWS3-EOF"
IsEofMarker(u) == u.k = "eof" /\ u.mod = NoMod

\* what hmac_checker.digest() looks like in a file
MacBytes(mac) == << MacUnit(mac, 1), MacUnit(mac, 2) >>

\* TwofishCBC(key, iv).encrypt(data), data a multiple of 16 bytes
CbcEncrypt(key, data) ==
  [i \in 1..(Len(data) \div BlockSize) |->
     CtUnit(key, SubSeq(data, BlockSize * (i - 1) + 1, BlockSize * i))]

\* TwofishCBC.decrypt of the unit at index i of units, the cipher having
\* decrypted every unit before it; g is the plaintext the cipher yields for
\* a block it cannot decrypt faithfully
CbcDecrypt(units, i, iv, key, g) ==
  LET u    == units[i]
      pmod == IF i = 1 THEN iv.mod ELSE units[i - 1].mod
  IN IF u.k = "ct" /\ u.key = key /\ u.mod = NoMod
       THEN ApplyMod(u.plain, pmod)
       ELSE g

\* ------------------------------------------------------------------ fields
Field(raw_type, raw_len, raw_value) ==
  [raw_type |-> raw_type, raw_len |-> raw_len, raw_value |-> raw_value]
NoField == Field(-1, 0, <<>>)

\* ------------------------------------------------------------ _urandom
PadBytes == {170}

\* ------------------------------------------------------ _write_field_tlv
PadCount(n) == IF n % BlockSize # 0 THEN BlockSize - (n % BlockSize) ELSE 0

TlvData(field, pad) ==
  LET data == PackLE32(field.raw_len) \o << field.raw_type >> \o field.raw_value
  IN data \o Rep(pad, PadCount(Len(data)))

\* the units _write_field_tlv appends to the file
_write_field_tlv(key, field, pad) ==
  IF field = NoField THEN << EofUnit >>
  ELSE CbcEncrypt(key, TlvData(field, pad))

\* MoreBlocks that counts the five bytes before the value ((raw_len+5)//16)
MoreBlocks_whole_header(raw_len) ==
  IF raw_len > FirstChunk THEN (raw_len + 5) \div BlockSize ELSE 0

\* ------------------------------------------------------- _read_field_tlv
\* number of further blocks read for a declared length
MoreBlocks(raw_len) == IF raw_len > FirstChunk THEN (raw_len + 4) \div BlockSize ELSE 0

RECURSIVE DecryptRun(_, _, _, _, _, _)
DecryptRun(units, from, to, iv, key, g) ==
  IF from > to THEN <<>>
  ELSE CbcDecrypt(units, from, iv, key, g) \o DecryptRun(units, from + 1, to, iv, key, g)

\* _read_field_tlv without the limit on the declared length (lines 205-207
\* dropped)
_read_field_tlv_unbounded(units, i, iv, key, g) ==
  IF i > Len(units)
    THEN [res |-> "eof_error", field |-> NoField, next |-> i, ndec |-> 0]
  ELSE IF IsEofMarker(units[i])
    THEN [res |-> "none", field |-> NoField, next |-> i + 1, ndec |-> 0]
  ELSE
    LET data     == CbcDecrypt(units, i, iv, key, g)
        raw_len  == UnpackLE32(SubSeq(data, 1, 4))
        raw_type == data[5]
        more     == MoreBlocks(raw_len)
        avail    == Min(more, Len(units) - i)
    IN IF avail < more
         THEN [res |-> "none", field |-> NoField, next |-> Len(units) + 1,
               ndec |-> 1 + avail]
       ELSE
         LET raw_value == SubSeq(data, 6, BlockSize)
                            \o DecryptRun(units, i + 1, i + more, iv, key, g)
         IN [res |-> "field",
             field |-> Field(raw_type, raw_len, SubSeq(raw_value, 1, Min(raw_len, Len(raw_value)))),
             next |-> i + 1 + more, ndec |-> 1 + more]

\* res: "eof_error" (raise VaultFormatError), "none" (return None),
\*      "exit" (sys.exit(1)) or "field"; next: index of the next unread unit;
\*      ndec: blocks decrypted
_read_field_tlv(units, i, iv, key, g) ==
  IF i > Len(units)
    THEN [res |-> "eof_error", field |-> NoField, next |-> i, ndec |-> 0]
  ELSE IF IsEofMarker(units[i])
    THEN [res |-> "none", field |-> NoField, next |-> i + 1, ndec |-> 0]
  ELSE
    LET data     == CbcDecrypt(units, i, iv, key, g)
        raw_len  == UnpackLE32(SubSeq(data, 1, 4))
        raw_type == data[5]
        more     == MoreBlocks(raw_len)
        avail    == Min(more, Len(units) - i)
    IN IF raw_len > FirstChunk /\ raw_len > MaxFieldLen
         THEN [res |-> "exit", field |-> NoField, next |-> i + 1, ndec |-> 1]
       ELSE IF avail < more
         THEN [res |-> "none", field |-> NoField, next |-> Len(units) + 1,
               ndec |-> 1 + avail]
       ELSE
         LET raw_value == SubSeq(data, 6, BlockSize)
                            \o DecryptRun(units, i + 1, i + more, iv, key, g)
         IN [res |-> "field",
             field |-> Field(raw_type, raw_len, SubSeq(raw_value, 1, Min(raw_len, Len(raw_value)))),
             next |-> i + 1 + more, ndec |-> 1 + more]

\* ------------------------------------------------- utf_8 codec ('replace')
\* A string is a sequence of code points below 65536.
ReplacementChar == 65533

EncodeChar(c) ==
  IF c < 128 THEN << c >>
  ELSE IF c < 2048 THEN << 192 + (c \div 64), 128 + (c % 64) >>
  ELSE << 224 + (c \div 4096), 128 + ((c \div 64) % 64), 128 + (c % 64) >>

RECURSIVE EncodeRange(_, _, _)
EncodeRange(s, lo, hi) ==
  IF lo > hi THEN <<>>
  ELSE IF lo = hi THEN EncodeChar(s[lo])
  ELSE LET mid == (lo + hi) \div 2
       IN EncodeRange(s, lo, mid) \o EncodeRange(s, mid + 1, hi)

\* value.encode('utf_8', 'replace')
Utf8Encode(s) == EncodeRange(s, 1, Len(s))

\* the code point decoded at byte i of b: none when byte i is a continuation
\* byte of a well-formed sequence begun at i-1 or i-2, U+FFFD when no
\* well-formed sequence begins at i
DecodeAt(b, i) ==
  LET Cont(j)  == j >= 1 /\ j <= Len(b) /\ b[j] >= 128 /\ b[j] < 192
      Two(j)   == j >= 1 /\ b[j] >= 194 /\ b[j] < 224 /\ Cont(j + 1)
      Cp3(j)   == ((b[j] - 224) * 4096) + ((b[j + 1] - 128) * 64) + (b[j + 2] - 128)
      Three(j) == j >= 1 /\ b[j] >= 224 /\ b[j] < 240 /\ Cont(j + 1) /\ Cont(j + 2)
                    /\ Cp3(j) >= 2048
  IN IF b[i] < 128 THEN << b[i] >>
     ELSE IF Cont(i) /\ (Two(i - 1) \/ Three(i - 1) \/ Three(i - 2)) THEN <<>>
     ELSE IF Two(i) THEN << ((b[i] - 192) * 64) + (b[i + 1] - 128) >>
     ELSE IF Three(i) THEN << Cp3(i) >>
     ELSE << ReplacementChar >>

RECURSIVE DecodeRange(_, _, _)
DecodeRange(b, lo, hi) ==
  IF lo > hi THEN <<>>
  ELSE IF lo = hi THEN DecodeAt(b, lo)
  ELSE LET mid == (lo + hi) \div 2
       IN DecodeRange(b, lo, mid) \o DecodeRange(b, mid + 1, hi)

\* raw_value.decode('utf_8', 'replace')
Utf8Decode(b) == DecodeRange(b, 1, Len(b))

\* ------------------------------------------------------- Header and Record
\* raw_fields: a dict from raw_type to Field
EmptyFields == [t \in {} |-> NoField]

Put(d, key, value) ==
  [t \in (DOMAIN d) \cup {key} |-> IF t = key THEN value ELSE d[t]]

RECURSIVE SortedKeys(_)
SortedKeys(S) ==
  IF S = {} THEN <<>>
  ELSE LET m == CHOOSE x \in S : \A y \in S : x <= y
       IN << m >> \o SortedKeys(S \ {m})

\* raw_fields.values(): the order of a CPython 2 dict of small integer keys
\* (slot = key mod 8, no collision among the types of this model)
DictValues(d) ==
  LET keys == SortedKeys(DOMAIN d) IN [i \in 1..Len(keys) |-> d[keys[i]]]

\* Header.add_raw_field
HeaderAddRawField(header, raw_field) == Put(header, raw_field.raw_type, raw_field)

KnownTypes == 2..6   \* group, title, user, notes, passwd

\* Record(): views[2] is _group, [3] _title, [4] _user, [5] _notes, [6] _passwd
NewRecord == [raw_fields |-> EmptyFields, views |-> [t \in KnownTypes |-> <<>>]]

\* Record.add_raw_field
RecordAddRawField(record, raw_field) ==
  [raw_fields |-> Put(record.raw_fields, raw_field.raw_type, raw_field),
   views |-> [t \in KnownTypes |->
                IF t = raw_field.raw_type THEN Utf8Decode(raw_field.raw_value)
                ELSE record.views[t]]]

\* RecordSetString that re-encodes the value and leaves raw_len as it was
RecordSetString_stale_len(record, raw_id, value) ==
  LET had   == raw_id \in DOMAIN record.raw_fields
      field == IF had THEN record.raw_fields[raw_id]
               ELSE Field(raw_id, Len(value), value)
  IN [raw_fields |-> Put(record.raw_fields, raw_id,
                         [field EXCEPT !.raw_value = Utf8Encode(value)]),
      views |-> [record.views EXCEPT ![raw_id] = value]]

\* Record._set_group, _set_title, _set_user, _set_notes, _set_passwd
RecordSetString(record, raw_id, value) ==
  LET had   == raw_id \in DOMAIN record.raw_fields
      field == IF had THEN record.raw_fields[raw_id]
               ELSE Field(raw_id, Len(value), value)
      enc   == Utf8Encode(value)
  IN [raw_fields |-> Put(record.raw_fields, raw_id,
                         [field EXCEPT !.raw_value = enc, !.raw_len = Len(enc)]),
      views |-> [record.views EXCEPT ![raw_id] = value]]

\* ------------------------------------------------------------------- Vault
NoneHmac == [none |-> TRUE, units |-> <<>>]
SomeHmac(units) == [none |-> FALSE, units |-> units]

\* Vault.__init__
FreshVault ==
  [f_tag |-> NoneStr, f_salt |-> NoneStr, f_iter |-> -1, f_sha_ps |-> NoneDig,
   f_b1 |-> NoneStr, f_b2 |-> NoneStr, f_b3 |-> NoneStr, f_b4 |-> NoneStr,
   f_iv |-> NoneStr, f_hmac |-> NoneHmac,
   header |-> EmptyFields, records |-> <<>>]

\* ------------------------------------------------------------------- files
\* byte offsets of the container layout
OffTag   == 0
OffSalt  == 4
OffIter  == 36
OffShaPs == 40
OffB1    == 72
OffB2    == 88
OffB3    == 104
OffB4    == 120
OffIv    == 136
OffStream == 152

EmptyFile ==
  [exists |-> TRUE,
   tag |-> Item("", 0), salt |-> Item("", 0), iter |-> Item(0, 0),
   sha_ps |-> [v |-> NoDigest, n |-> 0, mod |-> NoMod],
   b1 |-> Item("", 0), b2 |-> Item("", 0), b3 |-> Item("", 0), b4 |-> Item("", 0),
   iv |-> Item("", 0), units |-> <<>>]

NoFile == [EmptyFile EXCEPT !.exists = FALSE]

\* the first p bytes of a file (p at most OffB1, or on a block boundary)
Truncated(f, p) ==
  [exists |-> TRUE,
   tag    |-> Prefix(f.tag, p - OffTag),
   salt   |-> Prefix(f.salt, p - OffSalt),
   iter   |-> Prefix(f.iter, p - OffIter),
   sha_ps |-> Prefix(f.sha_ps, p - OffShaPs),
   b1     |-> Prefix(f.b1, p - OffB1),
   b2     |-> Prefix(f.b2, p - OffB2),
   b3     |-> Prefix(f.b3, p - OffB3),
   b4     |-> Prefix(f.b4, p - OffB4),
   iv     |-> Prefix(f.iv, p - OffIv),
   units  |-> SubSeq(f.units, 1, Min(Len(f.units), Max(0, (p - OffStream) \div BlockSize)))]

\* struct.unpack("<L", data)[0] of a complete 4-byte item
UnpackIter(x) ==
  IF x.mod[1] < 0 THEN x.v
  ELSE LET w == Pow256(x.mod[1])
           b == (x.v \div w) % 256
       IN (x.v - (b * w)) + (XorByte(b, x.mod[2]) * w)

\* --------------------------------------------------- the write phase
end_of_record == Field(EndOfRecord, 0, <<>>)

RECURSIVE RecordsFields(_, _)
RecordsFields(records, i) ==
  IF i > Len(records) THEN <<>>
  ELSE DictValues(records[i].raw_fields) \o << end_of_record >>
         \o RecordsFields(records, i + 1)

\* the fields of the records, those of a type without a name left out
RECURSIVE KnownRecordsFields(_, _)
KnownRecordsFields(records, i) ==
  IF i > Len(records) THEN <<>>
  ELSE SelectSeq(DictValues(records[i].raw_fields), LAMBDA f : f.raw_type \in KnownTypes)
         \o << end_of_record >> \o KnownRecordsFields(records, i + 1)

WriteSequence_known_only(v) ==
  DictValues(v.header) \o << end_of_record >> \o KnownRecordsFields(v.records, 1)
    \o << NoField >>

\* the arguments of the successive _write_field_tlv calls of write_to_file
WriteSequence(v) ==
  DictValues(v.header) \o << end_of_record >> \o RecordsFields(v.records, 1) \o << NoField >>

\* NextField that skips the fields of a record it does not know by name
NextField_known_only(v, k) == WriteSequence_known_only(v)[k]

\* the field the k-th _write_field_tlv call of write_to_file is given
NextField(v, k) == WriteSequence(v)[k]

\* write_to_file up to the construction of the cipher: the exception raised
\* (or ""), the temporary file, the Vault and the keys
Boilerplate(v, password) ==
  LET f1  == [EmptyFile EXCEPT !.tag = v.f_tag]
      f2  == [f1 EXCEPT !.salt = v.f_salt]
      f3  == [f2 EXCEPT !.iter = Item(v.f_iter, 4)]
      sp  == _stretch_password(password, v.f_salt, v.f_iter)
      v4  == [v EXCEPT !.f_sha_ps = Item(Sha256(sp), 32)]
      f4  == [f3 EXCEPT !.sha_ps = v4.f_sha_ps]
      f5  == [f4 EXCEPT !.b1 = v.f_b1]
      f6  == [f5 EXCEPT !.b2 = v.f_b2]
      f7  == [f6 EXCEPT !.b3 = v.f_b3]
      f8  == [f7 EXCEPT !.b4 = v.f_b4]
      f9  == [f8 EXCEPT !.iv = v.f_iv]
      Out(exc, f, vv) ==
        [exc |-> exc, file |-> f, vault |-> vv, stretched |-> sp,
         key_k |-> UnwrapKey(sp, v.f_b1, v.f_b2),
         key_l |-> UnwrapKey(sp, v.f_b3, v.f_b4)]
  IN IF IsNone(v.f_tag)       THEN Out("TypeError", EmptyFile, v)
     ELSE IF IsNone(v.f_salt) THEN Out("TypeError", f1, v)
     ELSE IF v.f_iter < 0     THEN Out("struct.error", f2, v)
     ELSE IF IsNone(v.f_b1)   THEN Out("TypeError", f4, v4)
     ELSE IF IsNone(v.f_b2)   THEN Out("TypeError", f5, v4)
     ELSE IF IsNone(v.f_b3)   THEN Out("TypeError", f6, v4)
     ELSE IF IsNone(v.f_b4)   THEN Out("TypeError", f7, v4)
     ELSE IF IsNone(v.f_iv)   THEN Out("TypeError", f8, v4)
     ELSE Out("", f9, v4)

\* -------------------------------------------------------------- sample data
Passwords == {"pw", "bad"}   \* tried on load
WritePasswords == {"pw"}     \* given to write_to_file

SampleRecord ==
  RecordAddRawField(
    RecordAddRawField(
      RecordAddRawField(NewRecord, Field(1, 16, Rep(9, 16))),
      Field(3, 1, << 84 >>)),
    Field(6, 1, << 80 >>))

\* a Vault as another PasswordSafe V3 program holds it
SampleVault ==
  [f_tag |-> Pws3Tag, f_salt |-> Item("salt", 32), f_iter |-> 2,
   f_sha_ps |-> NoneDig,
   f_b1 |-> Item("b1", 16), f_b2 |-> Item("b2", 16),
   f_b3 |-> Item("b3", 16), f_b4 |-> Item("b4", 16),
   f_iv |-> Item("iv", 16), f_hmac |-> NoneHmac,
   header |-> HeaderAddRawField(EmptyFields, Field(0, 2, << 0, 3 >>)),
   records |-> << SampleRecord >>]

RECURSIVE WriteAll(_, _, _, _)
WriteAll(seq, i, key, pad) ==
  IF i > Len(seq) THEN <<>>
  ELSE _write_field_tlv(key, seq[i], pad) \o WriteAll(seq, i + 1, key, pad)

RECURSIVE MacOf(_, _)
MacOf(seq, i) ==
  IF i > Len(seq) THEN <<>> ELSE seq[i].raw_value \o MacOf(seq, i + 1)

\* the container file of a Vault under a password
Container(v, password) ==
  LET b == Boilerplate(v, password)
  IN [b.file EXCEPT !.units =
        WriteAll(WriteSequence(v), 1, b.key_k, CHOOSE x \in PadBytes : TRUE)
          \o MacBytes(Hmac(b.key_l, MacOf(WriteSequence(v), 1)))]

SampleFile == Container(SampleVault, "pw")

\* a container another program wrote under the password "pw" with the
\* members of SampleVault: the fields of seq, then the digest of the bytes mac
CraftedFile(seq, mac) ==
  LET b == Boilerplate(SampleVault, "pw")
  IN [b.file EXCEPT !.units =
        WriteAll(seq, 1, b.key_k, CHOOSE x \in PadBytes : TRUE)
          \o MacBytes(Hmac(b.key_l, mac))]

\* the header field, then the end-of-file marker: no 0xFF sentinel
EofInHeaderFile ==
  CraftedFile(<< Field(0, 2, << 0, 3 >>), NoField >>, << 0, 3 >>)

\* a record closed by its sentinel, then a title with no sentinel behind it
NoFinalSentinelFile ==
  CraftedFile(<< Field(0, 2, << 0, 3 >>), end_of_record,
                 Field(3, 1, << 84 >>), end_of_record,
                 Field(3, 1, << 85 >>), NoField >>,
              << 0, 3, 84, 85 >>)

\* the files read_from_file is handed
InputFiles == { SampleFile, EofInHeaderFile, NoFinalSentinelFile }

\* what decryption yields for a block it cannot decrypt faithfully: a
\* declared length far above 1024, or a short field of type 7
Garbage ==
  { << 13, 240, 173, 58, 7 >> \o Rep(0, 11),
    << 3, 0, 0, 0, 7, 1, 2, 3 >> \o Rep(0, 8) }

\* ------------------------------------------------------------------- state
VARIABLES
  vaults,    \* "self": the caller's Vault; "tmp": write_to_file's tmpvault
  fs,        \* "dest": the file at filename; "tmp": the mkstemp file
  rd,        \* the frame of read_from_file
  wr,        \* the frame of write_to_file
  last,      \* how the last top-level call ended
  proc,      \* "running", "crashed" or "exited" (sys.exit)
  ncalls, nedits, ncorrupt,
  observed,  \* what another process found at filename during a write
  ghost,     \* history: pristine (self was loaded and not edited since),
             \* saved (the last completed save), good (the last file that
             \* loaded, with its password), flip (the last modification)
  calc       \* a call of a method that touches no Vault and no file:
             \* its arguments and what it returned

vars == << vaults, fs, rd, wr, last, proc, ncalls, nedits, ncorrupt, observed, ghost,
           calc >>

NoCalc == [op |-> "none", args |-> << >>, out |-> << >>, record |-> NewRecord, nops |-> 0]

IdleRd ==
  [pc |-> "idle", obj |-> "self", path |-> "dest", password |-> "pw", idx |-> 1,
   stretched |-> NoDigest, key_k |-> NoKey, key_l |-> NoKey, hmac |-> <<>>,
   current_record |-> NewRecord, exc |-> "", stage |-> "idle",
   ndec |-> 0, nunwrap |-> 0, nread |-> 0,
   decoded |-> <<>>,      \* the Fields _read_field_tlv returned, in order
   eof |-> 0,             \* index of the end-of-file marker it returned None for
   fresh |-> FALSE, pre |-> [header |-> EmptyFields, records |-> <<>>],
   file |-> NoFile]

IdleWr ==
  [pc |-> "idle", password |-> "pw", k |-> 1, key_k |-> NoKey,
   hmac |-> Hmac(NoKey, <<>>), exc |-> "",
   readback |-> "none",   \* how the read-back ended: "none", "ok" or the exception
   verified |-> FALSE,    \* the read-back returned
   pre |-> NoFile,        \* the destination when write_to_file was called
   vault0 |-> FreshVault, \* the Vault when write_to_file was called
   tmpfile |-> NoFile]    \* the temporary file the read-back verified

NoSave == [valid |-> FALSE, header |-> EmptyFields, records |-> <<>>,
           file |-> NoFile, password |-> "pw"]
NoFlip == [region |-> "none", base |-> NoFile, result |-> NoFile,
           basegood |-> FALSE, password |-> "pw"]

\* a new Vault(), and at filename one of files
InitWith(files) ==
  /\ vaults = [self |-> FreshVault, tmp |-> FreshVault]
  /\ fs \in { [dest |-> d, tmp |-> NoFile] : d \in files }
  /\ rd = IdleRd
  /\ wr = IdleWr
  /\ last = [op |-> "none", exc |-> ""]
  /\ proc = "running"
  /\ ncalls = 0 /\ nedits = 0 /\ ncorrupt = 0
  /\ observed = [seen |-> FALSE, file |-> NoFile]
  /\ ghost = [pristine |-> FALSE, saved |-> NoSave, flip |-> NoFlip,
              good |-> [file |-> NoFile, password |-> "pw"]]
  /\ calc = NoCalc

Init == InitWith({NoFile, SampleFile})

\* the file at a path: "orig" is a container this program never writes (the
\* caller loads it and saves under another name), "dest" is the filename of
\* write_to_file, "tmp" its temporary file
FileAt(path) == IF path = "orig" THEN SampleFile ELSE fs[path]

RuntimeErrors == {"VaultVersionError", "BadPasswordError", "VaultFormatError"}

RdActive == rd.pc \in {"TagCheck", "PasswordVerify", "KeyUnwrap",
                       "HeaderFields", "RecordFields", "TagVerify"}
WrActive == wr.pc \in {"boilerplate", "fields", "hmac", "readback", "reading",
                       "except", "remove", "rename"}
CallerIdle == proc = "running" /\ ~RdActive /\ ~WrActive

\* ---------------------------------------------------------- read_from_file
\* The steps follow the load state machine: Start (the call), TagCheck,
\* PasswordVerify, KeyUnwrap, HeaderFields*, RecordFields*, TagVerify, Loaded.

\* read_from_file ends (exc = "": it returns) in the frame r with the Vault
\* nv; an exception unwinds into write_to_file when the call is its read-back
RdEnd(r, nv, exc) ==
  /\ rd' = [r EXCEPT !.pc = IF exc = "" THEN "Loaded" ELSE "Failed", !.exc = exc]
  /\ vaults' = [vaults EXCEPT ![rd.obj] = nv]
  /\ IF rd.obj = "self"
       THEN /\ last' = [op |-> "read", exc |-> exc]
            /\ proc' = IF exc = "SystemExit" THEN "exited" ELSE proc
            /\ wr' = wr
            /\ ghost' = [ghost EXCEPT
                 !.pristine = (exc = ""),
                 !.good = IF exc = "" THEN [file |-> rd.file, password |-> rd.password]
                          ELSE @]
       ELSE /\ ghost' = ghost
            /\ IF exc = ""
                 THEN /\ wr' = [wr EXCEPT !.pc = "remove", !.readback = "ok",
                                          !.verified = TRUE, !.tmpfile = fs.tmp]
                      /\ UNCHANGED << last, proc >>
               ELSE IF exc \in RuntimeErrors
                 THEN /\ wr' = [wr EXCEPT !.pc = "except", !.readback = exc]
                      /\ UNCHANGED << last, proc >>
               ELSE /\ wr' = [wr EXCEPT !.pc = "raised", !.exc = exc, !.readback = exc]
                    /\ last' = [op |-> "write", exc |-> exc]
                    /\ proc' = IF exc = "SystemExit" THEN "exited" ELSE proc
  /\ UNCHANGED << fs, ncalls, nedits, ncorrupt, observed, calc >>

\* read_from_file moves on to the step pc
RdStep(r, nv, pc) ==
  /\ rd' = [r EXCEPT !.pc = pc, !.stage = pc]
  /\ vaults' = [vaults EXCEPT ![rd.obj] = nv]
  /\ UNCHANGED << fs, wr, last, proc, ncalls, nedits, ncorrupt, observed, ghost, calc >>

\* the frame of a call of read_from_file(path, password) on vaults[obj]
RdFrame(obj, path, password) ==
  [IdleRd EXCEPT !.pc = "TagCheck", !.stage = "Start", !.obj = obj, !.path = path,
                 !.password = password,
                 !.fresh = (vaults[obj] = FreshVault),
                 !.pre = [header |-> vaults[obj].header, records |-> vaults[obj].records],
                 !.file = FileAt(path)]

\* the caller calls self.read_from_file(filename, password)
ReadCall(path, password) ==
  /\ CallerIdle
  /\ ncalls < MaxCalls
  /\ ncalls' = ncalls + 1
  /\ IF FileAt(path).exists
       THEN /\ rd' = RdFrame("self", path, password)
            /\ UNCHANGED << last, ghost >>
       ELSE /\ rd' = [RdFrame("self", path, password) EXCEPT
                        !.pc = "Failed", !.exc = "IOError"]
            /\ last' = [op |-> "read", exc |-> "IOError"]
            /\ ghost' = [ghost EXCEPT !.pristine = FALSE]
  /\ wr' = IdleWr
  /\ UNCHANGED << vaults, fs, proc, nedits, ncorrupt, observed, calc >>

TagCheck ==
  /\ proc = "running" /\ rd.pc = "TagCheck"
  /\ LET f  == FileAt(rd.path)
         nv == [vaults[rd.obj] EXCEPT !.f_tag = f.tag]
         r  == [rd EXCEPT !.stage = "TagCheck", !.nread = @ + 1]
     IN IF ~BytesEq(nv.f_tag, Pws3Tag)
          THEN RdEnd(r, nv, "VaultVersionError")
          ELSE RdStep(r, nv, "PasswordVerify")

\* PasswordVerify without the comparison of H(P') (lines 267-268 dropped)
PasswordVerify_unchecked ==
  /\ proc = "running" /\ rd.pc = "PasswordVerify"
  /\ LET f   == FileAt(rd.path)
         v1  == [vaults[rd.obj] EXCEPT !.f_salt = f.salt]
         v2  == [v1 EXCEPT !.f_iter = UnpackIter(f.iter)]
         stretched_password == _stretch_password(rd.password, v2.f_salt, v2.f_iter)
         v3  == [v2 EXCEPT !.f_sha_ps = f.sha_ps]
         r   == [rd EXCEPT !.stage = "PasswordVerify", !.nread = @ + 3]
     IN IF f.iter.n < 4
          THEN RdEnd(r, v1, "struct.error")
        ELSE RdStep([r EXCEPT !.stretched = stretched_password], v3, "KeyUnwrap")

PasswordVerify ==
  /\ proc = "running" /\ rd.pc = "PasswordVerify"
  /\ LET f   == FileAt(rd.path)
         v1  == [vaults[rd.obj] EXCEPT !.f_salt = f.salt]
         v2  == [v1 EXCEPT !.f_iter = UnpackIter(f.iter)]
         stretched_password == _stretch_password(rd.password, v2.f_salt, v2.f_iter)
         my_sha_ps == Item(Sha256(stretched_password), 32)
         v3  == [v2 EXCEPT !.f_sha_ps = f.sha_ps]
         r   == [rd EXCEPT !.stage = "PasswordVerify", !.nread = @ + 3]
     IN IF f.iter.n < 4
          THEN RdEnd(r, v1, "struct.error")
        ELSE IF ~BytesEq(v3.f_sha_ps, my_sha_ps)
          THEN RdEnd(r, v3, "BadPasswordError")
        ELSE RdStep([r EXCEPT !.stretched = stretched_password], v3, "KeyUnwrap")

KeyUnwrap ==
  /\ proc = "running" /\ rd.pc = "KeyUnwrap"
  /\ LET f  == FileAt(rd.path)
         nv == [vaults[rd.obj] EXCEPT !.f_b1 = f.b1, !.f_b2 = f.b2, !.f_b3 = f.b3,
                                      !.f_b4 = f.b4, !.f_iv = f.iv]
         r  == [rd EXCEPT !.stage = "KeyUnwrap",
                          !.key_k = UnwrapKey(rd.stretched, f.b1, f.b2),
                          !.key_l = UnwrapKey(rd.stretched, f.b3, f.b4),
                          !.nunwrap = @ + 4, !.nread = @ + 5,
                          !.hmac = <<>>, !.idx = 1]
     IN RdStep(r, nv, "HeaderFields")

\* one turn of the "read header" loop
HeaderFields ==
  /\ proc = "running" /\ rd.pc = "HeaderFields"
  /\ \E g \in Garbage :
       LET v   == vaults[rd.obj]
           units == FileAt(rd.path).units
           res == _read_field_tlv(units, rd.idx, v.f_iv, rd.key_k, g)
           r   == [rd EXCEPT !.stage = "HeaderFields", !.idx = res.next,
                             !.ndec = @ + res.ndec]
       IN IF res.res = "eof_error" THEN RdEnd(r, v, "VaultFormatError")
          ELSE IF res.res = "exit" THEN RdEnd(r, v, "SystemExit")
          ELSE IF res.res = "none"
            THEN RdStep([r EXCEPT !.current_record = NewRecord,
                                  !.eof = IF IsEofMarker(units[rd.idx]) THEN rd.idx ELSE @],
                        v, "RecordFields")
          ELSE IF res.field.raw_type = EndOfRecord
            THEN RdStep([r EXCEPT !.current_record = NewRecord,
                                  !.decoded = Append(@, res.field)],
                        v, "RecordFields")
          ELSE RdStep([r EXCEPT !.hmac = @ \o res.field.raw_value,
                                !.decoded = Append(@, res.field)],
                      [v EXCEPT !.header = HeaderAddRawField(@, res.field)],
                      "HeaderFields")

\* one turn of the "read fields" loop
RecordFields ==
  /\ proc = "running" /\ rd.pc = "RecordFields"
  /\ \E g \in Garbage :
       LET v   == vaults[rd.obj]
           units == FileAt(rd.path).units
           res == _read_field_tlv(units, rd.idx, v.f_iv, rd.key_k, g)
           r   == [rd EXCEPT !.stage = "RecordFields", !.idx = res.next,
                             !.ndec = @ + res.ndec]
       IN IF res.res = "eof_error" THEN RdEnd(r, v, "VaultFormatError")
          ELSE IF res.res = "exit" THEN RdEnd(r, v, "SystemExit")
          ELSE IF res.res = "none"
            THEN RdStep([r EXCEPT !.eof = IF IsEofMarker(units[rd.idx]) THEN rd.idx ELSE @],
                        v, "TagVerify")
          ELSE IF res.field.raw_type = EndOfRecord
            THEN RdStep([r EXCEPT !.current_record = NewRecord,
                                  !.decoded = Append(@, res.field)],
                        [v EXCEPT !.records = Append(@, rd.current_record)],
                        "RecordFields")
          ELSE RdStep([r EXCEPT !.hmac = @ \o res.field.raw_value,
                                !.decoded = Append(@, res.field),
                                !.current_record = RecordAddRawField(@, res.field)],
                      v, "RecordFields")

\* TagVerify without the comparison of the tag (lines 315-316 dropped)
TagVerify_unchecked ==
  /\ proc = "running" /\ rd.pc = "TagVerify"
  /\ LET units   == FileAt(rd.path).units
         data    == SubSeq(units, rd.idx, Min(Len(units), rd.idx + (HmacSize \div BlockSize) - 1))
         nv      == [vaults[rd.obj] EXCEPT !.f_hmac = SomeHmac(data)]
         r       == [rd EXCEPT !.stage = "TagVerify", !.idx = @ + Len(data)]
     IN RdEnd(r, nv, "")

\* "read HMAC": the tag is read and compared with the digest
TagVerify ==
  /\ proc = "running" /\ rd.pc = "TagVerify"
  /\ LET units   == FileAt(rd.path).units
         data    == SubSeq(units, rd.idx, Min(Len(units), rd.idx + (HmacSize \div BlockSize) - 1))
         nv      == [vaults[rd.obj] EXCEPT !.f_hmac = SomeHmac(data)]
         my_hmac == MacBytes(Hmac(rd.key_l, rd.hmac))
         r       == [rd EXCEPT !.stage = "TagVerify", !.idx = @ + Len(data)]
     IN IF nv.f_hmac.units # my_hmac
          THEN RdEnd(r, nv, "VaultFormatError")
          ELSE RdEnd(r, nv, "")

\* ----------------------------------------------------------- write_to_file
\* write_to_file raises exc
WrRaise(exc) ==
  /\ wr' = [wr EXCEPT !.pc = "raised", !.exc = exc]
  /\ last' = [op |-> "write", exc |-> exc]

\* the caller calls self.write_to_file(filename, password): tempfile.mkstemp
WriteCall(password) ==
  /\ CallerIdle
  /\ ncalls < MaxCalls
  /\ ncalls' = ncalls + 1
  /\ fs' = [fs EXCEPT !.tmp = EmptyFile]
  /\ wr' = [IdleWr EXCEPT !.pc = "boilerplate", !.password = password, !.pre = fs.dest,
                       !.vault0 = vaults.self]
  /\ observed' = [seen |-> FALSE, file |-> NoFile]
  /\ rd' = IdleRd
  /\ UNCHANGED << vaults, last, proc, nedits, ncorrupt, ghost, calc >>

\* WrBoilerplate choosing a new IV on each write (the FIXME of line 329)
WrBoilerplate_new_iv ==
  /\ proc = "running" /\ wr.pc = "boilerplate"
  /\ LET b  == Boilerplate(vaults.self, wr.password)
         iv == Item("urandom", 16)
     IN IF b.exc # ""
          THEN /\ fs' = [fs EXCEPT !.tmp = b.file]
               /\ vaults' = [vaults EXCEPT !.self = b.vault]
               /\ WrRaise(b.exc)
          ELSE /\ fs' = [fs EXCEPT !.tmp = [b.file EXCEPT !.iv = iv]]
               /\ vaults' = [vaults EXCEPT !.self = [b.vault EXCEPT !.f_iv = iv]]
               /\ wr' = [wr EXCEPT !.pc = "fields", !.k = 1, !.key_k = b.key_k,
                                   !.hmac = Hmac(b.key_l, <<>>)]
               /\ last' = last
  /\ UNCHANGED << rd, proc, ncalls, nedits, ncorrupt, observed, ghost, calc >>

\* "write boilerplate"
WrBoilerplate ==
  /\ proc = "running" /\ wr.pc = "boilerplate"
  /\ LET b == Boilerplate(vaults.self, wr.password)
     IN /\ fs' = [fs EXCEPT !.tmp = b.file]
        /\ vaults' = [vaults EXCEPT !.self = b.vault]
        /\ IF b.exc # ""
             THEN WrRaise(b.exc)
             ELSE /\ wr' = [wr EXCEPT !.pc = "fields", !.k = 1, !.key_k = b.key_k,
                                      !.hmac = Hmac(b.key_l, <<>>)]
                  /\ last' = last
  /\ UNCHANGED << rd, proc, ncalls, nedits, ncorrupt, observed, ghost, calc >>

\* one _write_field_tlv call of the header loop, the records loop or the
\* end-of-file marker, with its hmac_checker.update
WrField ==
  /\ proc = "running" /\ wr.pc = "fields"
  /\ \E pad \in PadBytes :
       LET field == NextField(vaults.self, wr.k)
       IN IF field # NoField /\ Len(field.raw_value) # field.raw_len
            THEN WrRaise("AssertionError") /\ fs' = fs
          ELSE IF field # NoField /\ field.raw_type \notin 0..255
            THEN WrRaise("struct.error") /\ fs' = fs
          ELSE /\ fs' = [fs EXCEPT !.tmp.units = @ \o _write_field_tlv(wr.key_k, field, pad)]
               /\ wr' = [wr EXCEPT
                    !.k = @ + 1,
                    !.hmac.msg = IF field = NoField THEN @ ELSE @ \o field.raw_value,
                    !.pc = IF field = NoField THEN "hmac" ELSE "fields"]
               /\ last' = last
  /\ UNCHANGED << vaults, rd, proc, ncalls, nedits, ncorrupt, observed, ghost, calc >>

\* self.f_hmac = hmac_checker.digest(); write; close
WrHmac ==
  /\ proc = "running" /\ wr.pc = "hmac"
  /\ vaults' = [vaults EXCEPT !.self.f_hmac = SomeHmac(MacBytes(wr.hmac))]
  /\ fs' = [fs EXCEPT !.tmp.units = @ \o MacBytes(wr.hmac)]
  /\ wr' = [wr EXCEPT !.pc = "readback"]
  /\ UNCHANGED << rd, last, proc, ncalls, nedits, ncorrupt, observed, ghost, calc >>

\* tmpvault = Vault(); tmpvault.read_from_file(tmpfilename, password)
WrReadback ==
  /\ proc = "running" /\ wr.pc = "readback"
  /\ vaults' = [vaults EXCEPT !.tmp = FreshVault]
  /\ rd' = [RdFrame("tmp", "tmp", wr.password) EXCEPT
              !.fresh = TRUE, !.pre = [header |-> EmptyFields, records |-> <<>>]]
  /\ wr' = [wr EXCEPT !.pc = "reading"]
  /\ UNCHANGED << fs, last, proc, ncalls, nedits, ncorrupt, observed, ghost, calc >>

\* except RuntimeError: os.remove(tmpfilename); raise VaultFormatError
WrExcept ==
  /\ proc = "running" /\ wr.pc = "except"
  /\ fs' = [fs EXCEPT !.tmp = NoFile]
  /\ WrRaise("VaultFormatError")
  /\ UNCHANGED << vaults, rd, proc, ncalls, nedits, ncorrupt, observed, ghost, calc >>

\* os.remove(filename)
WrRemove ==
  /\ proc = "running" /\ wr.pc = "remove"
  /\ IF fs.dest.exists
       THEN /\ fs' = [fs EXCEPT !.dest = NoFile]
            /\ wr' = [wr EXCEPT !.pc = "rename"]
            /\ last' = last
       ELSE /\ fs' = fs
            /\ WrRaise("OSError")
  /\ UNCHANGED << vaults, rd, proc, ncalls, nedits, ncorrupt, observed, ghost, calc >>

\* os.rename(tmpfilename, filename)
WrRename ==
  /\ proc = "running" /\ wr.pc = "rename"
  /\ fs' = [dest |-> fs.tmp, tmp |-> NoFile]
  /\ wr' = [wr EXCEPT !.pc = "done"]
  /\ last' = [op |-> "write", exc |-> ""]
  /\ ghost' = [ghost EXCEPT !.saved =
       [valid |-> ghost.pristine, header |-> vaults.self.header,
        records |-> vaults.self.records, file |-> fs.tmp, password |-> wr.password]]
  /\ UNCHANGED << vaults, rd, proc, ncalls, nedits, ncorrupt, observed, calc >>

\* ------------------------------------------------------------- the caller
\* title = "G" (a type the sample record has), notes = 1025 times "N" (a type
\* it has not)
EditStrings == { << 3, << 71 >> >>, << 5, Rep(78, MaxFieldLen + 1) >> }
EditFields  == { Field(7, 3, << 1, 2, 3 >>), Field(EndOfRecord, 1, << 1 >>) }

\* the caller edits a Vault it has loaded
Edited(nv) ==
  /\ CallerIdle
  /\ ~IsNone(vaults.self.f_iv)
  /\ nedits < MaxEdits
  /\ nedits' = nedits + 1
  /\ vaults' = [vaults EXCEPT !.self = nv]
  /\ ghost' = [ghost EXCEPT !.pristine = FALSE]
  /\ rd' = IdleRd /\ wr' = IdleWr
  /\ UNCHANGED << fs, last, proc, ncalls, ncorrupt, observed, calc >>

\* self.records.append(Vault.Record())
AppendRecord ==
  \E record \in {NewRecord} :
    Edited([vaults.self EXCEPT !.records = Append(@, record)])

\* record.group = value, ..., record.passwd = value
SetString ==
  \E i \in 1..Len(vaults.self.records), e \in EditStrings :
    Edited([vaults.self EXCEPT !.records[i] = RecordSetString(@, e[1], e[2])])

\* record.add_raw_field(field)
AddRawField ==
  \E i \in 1..Len(vaults.self.records), field \in EditFields :
    Edited([vaults.self EXCEPT !.records[i] = RecordAddRawField(@, field)])

\* the caller starts over with a new Vault()
NewVault ==
  /\ CallerIdle
  /\ vaults.self # FreshVault
  /\ vaults' = [vaults EXCEPT !.self = FreshVault]
  /\ ghost' = [ghost EXCEPT !.pristine = FALSE]
  /\ rd' = IdleRd /\ wr' = IdleWr
  /\ UNCHANGED << fs, last, proc, ncalls, nedits, ncorrupt, observed, calc >>

\* -------------------------------------------------------- the environment
\* the process is killed
Crash ==
  /\ proc = "running"
  /\ RdActive \/ WrActive
  /\ proc' = "crashed"
  /\ UNCHANGED << vaults, fs, rd, wr, last, ncalls, nedits, ncorrupt, observed, ghost, calc >>

\* another process opens filename while write_to_file runs
Observe ==
  /\ proc = "running"
  /\ WrActive
  /\ observed' = [seen |-> TRUE, file |-> fs.dest]
  /\ UNCHANGED << vaults, fs, rd, wr, last, proc, ncalls, nedits, ncorrupt, ghost, calc >>

\* a file may be modified while the program does not have it open: the
\* destination between calls, the temporary file between close and read-back
Modifiable(path) ==
  /\ proc = "running"
  /\ ncorrupt < MaxCorrupt
  /\ fs[path].exists
  /\ \/ path = "dest" /\ CallerIdle
     \/ path = "tmp" /\ wr.pc = "readback"

Modified(path, region, nf) ==
  /\ fs' = [fs EXCEPT ![path] = nf]
  /\ ncorrupt' = ncorrupt + 1
  /\ ghost' = [ghost EXCEPT !.flip =
       [region |-> region, base |-> fs[path], result |-> nf,
        basegood |-> (fs[path] = ghost.good.file), password |-> ghost.good.password]]
  /\ UNCHANGED << vaults, rd, wr, last, proc, ncalls, nedits, observed, calc >>

FlipMods == { << 0, 1 >>, << 5, 1 >> }

\* one byte of one 16-byte unit behind the IV is changed
FlipUnit ==
  \E path \in {"dest", "tmp"} :
    /\ Modifiable(path)
    /\ \E i \in 1..Len(fs[path].units), m \in FlipMods :
         Modified(path,
                  IF fs[path].units[i].k = "ct" THEN "stream"
                  ELSE IF fs[path].units[i].k = "mac" THEN "hmac" ELSE "eof",
                  [fs[path] EXCEPT !.units[i].mod = m])

\* one byte of the fixed-size part is changed
FlipHeader ==
  \E path \in {"dest", "tmp"} :
    /\ Modifiable(path)
    /\ \E m \in FlipMods :
         \/ m[1] < fs[path].tag.n    /\ Modified(path, "head", [fs[path] EXCEPT !.tag.mod = m])
         \/ m[1] < fs[path].salt.n   /\ Modified(path, "head", [fs[path] EXCEPT !.salt.mod = m])
         \/ m[1] < fs[path].iter.n   /\ Modified(path, "head", [fs[path] EXCEPT !.iter.mod = m])
         \/ m[1] < fs[path].sha_ps.n /\ Modified(path, "head", [fs[path] EXCEPT !.sha_ps.mod = m])
         \/ m[1] < fs[path].b1.n     /\ Modified(path, "head", [fs[path] EXCEPT !.b1.mod = m])
         \/ m[1] < fs[path].b3.n     /\ Modified(path, "head", [fs[path] EXCEPT !.b3.mod = m])
         \/ m[1] < fs[path].iv.n     /\ Modified(path, "head", [fs[path] EXCEPT !.iv.mod = m])

\* the lengths a file is cut to: inside the tag, salt, iter and H(P'), and
\* on the block boundaries behind the IV
CutPoints(f) ==
  {0, 2, OffSalt, 20, OffIter, 38, OffShaPs, 60}
    \cup { OffStream + (BlockSize * n) : n \in 0..(Len(f.units) - 1) }

Truncate ==
  \E path \in {"dest", "tmp"} :
    /\ Modifiable(path)
    /\ fs[path].iv.n = BlockSize
    /\ \E p \in CutPoints(fs[path]) :
         Modified(path, "cut", Truncated(fs[path], p))

\* ------------------------------------------- methods called on their own
\* _stretch_password, the field codec and the Record methods touch neither a
\* Vault's members nor a file; they are called here on arguments drawn from
\* small sets, and calc keeps the arguments and the result.
ProgramVars ==
  << vaults, fs, rd, wr, last, proc, ncalls, nedits, ncorrupt, observed, ghost >>

Salts == { Item("salt", 32), Item("pepper", 32) }

\* self._stretch_password(password, salt, iterations)
StretchCall ==
  /\ calc.op = "none"
  /\ \E password \in Passwords, salt \in Salts, iterations \in 0..MaxIter :
       calc' = [NoCalc EXCEPT
                  !.op = "_stretch_password",
                  !.args = << password, salt, iterations >>,
                  !.out = << _stretch_password(password, salt, iterations) >>]
  /\ UNCHANGED ProgramVars

\* the key and IV of the cipher the field codec is handed
CodecKey == UnwrapKey(_stretch_password("pw", Item("salt", 32), 2),
                      Item("b1", 16), Item("b2", 16))
CodecIv == Item("iv", 16)

\* a value of L bytes, no two neighbours alike
ValueOfLen(L) == [i \in 1..L |-> i % 251]

\* _write_field_tlv(field) then _write_field_tlv(next) into an empty file,
\* and two calls of _read_field_tlv on the result
CodecCall ==
  /\ calc.op = "none"
  /\ \E L \in 0..MaxFieldLen, raw_type \in {1, 5}, pad \in PadBytes, g \in Garbage :
       LET field   == Field(raw_type, L, ValueOfLen(L))
           next    == Field(3, 1, << 84 >>)
           written == _write_field_tlv(CodecKey, field, pad)
           units   == written \o _write_field_tlv(CodecKey, next, pad)
           first   == _read_field_tlv(units, 1, CodecIv, CodecKey, g)
           second  == _read_field_tlv(units, first.next, CodecIv, CodecKey, g)
       IN calc' = [NoCalc EXCEPT
                     !.op = "field_tlv",
                     !.args = << field, next >>,
                     !.out = << Len(written), first, second >>]
  /\ UNCHANGED ProgramVars

\* the decrypted blocks of fields in a file: declared length, type, bytes
LoadBlocks ==
  { << 0, 0, 0, 0, 2 >> \o Rep(170, 11),
    << 2, 0, 0, 0, 3, 195, 169 >> \o Rep(170, 9),
    << 1, 0, 0, 0, 4, 255 >> \o Rep(170, 10),
    << 12, 0, 0, 0, 1 >> \o ValueOfLen(12) \o Rep(170, 15) }

\* a Field as read_from_file gets it from _read_field_tlv
LoadedField(data) ==
  _read_field_tlv(CbcEncrypt(CodecKey, data), 1, CodecIv, CodecKey,
                  CHOOSE g \in Garbage : TRUE).field

\* the strings assigned through the accessors: "", "G", U+00E9, U+20AC "G"
Strings == { << >>, << 71 >>, << 233 >>, << 8364, 71 >> }

\* record.add_raw_field(field), field produced by a load
RecordAddCall ==
  /\ calc.op \in {"none", "Record"}
  /\ calc.nops < MaxOps
  /\ \E data \in LoadBlocks :
       calc' = [calc EXCEPT !.op = "Record", !.nops = @ + 1,
                            !.args = << "add_raw_field", LoadedField(data) >>,
                            !.record = RecordAddRawField(@, LoadedField(data))]
  /\ UNCHANGED ProgramVars

\* record.group = value, ..., record.passwd = value
RecordSetCall ==
  /\ calc.op \in {"none", "Record"}
  /\ calc.nops < MaxOps
  /\ \E raw_id \in KnownTypes, value \in Strings :
       calc' = [calc EXCEPT !.op = "Record", !.nops = @ + 1,
                            !.args = << "set", raw_id, value >>,
                            !.record = RecordSetString(@, raw_id, value)]
  /\ UNCHANGED ProgramVars

\* the caller drops the result and starts over with record = Vault.Record()
RecordNewCall ==
  /\ calc.op # "none"
  /\ calc' = NoCalc
  /\ UNCHANGED ProgramVars

Program ==
  \/ \E path \in {"orig", "dest"}, password \in Passwords : ReadCall(path, password)
  \/ TagCheck \/ PasswordVerify \/ KeyUnwrap \/ HeaderFields \/ RecordFields \/ TagVerify
  \/ \E password \in WritePasswords : WriteCall(password)
  \/ WrBoilerplate \/ WrField \/ WrHmac \/ WrReadback \/ WrExcept \/ WrRemove \/ WrRename
  \/ NewVault

Edits == AppendRecord \/ SetString \/ AddRawField

\* the program and its caller
Next == Program \/ Edits

Spec == Init /\ [][Next]_vars

\* the same, with crashes and another process watching the destination
NextCrash == Program \/ Edits \/ Crash \/ Observe

SpecCrash == Init /\ [][NextCrash]_vars

\* the program against files modified behind its back
NextEnv == Program \/ FlipUnit \/ FlipHeader \/ Truncate

SpecEnv == Init /\ [][NextEnv]_vars

\* read_from_file on the files of InputFiles
InitInput == InitWith(InputFiles)

NextInput ==
  \/ \E password \in Passwords : ReadCall("dest", password)
  \/ TagCheck \/ PasswordVerify \/ KeyUnwrap \/ HeaderFields \/ RecordFields \/ TagVerify
  \/ NewVault

SpecInput == InitInput /\ [][NextInput]_vars

\* the methods that touch no Vault member and no file, called on their own
NextPure == StretchCall \/ CodecCall \/ RecordAddCall \/ RecordSetCall \/ RecordNewCall

SpecPure == Init /\ [][NextPure]_vars

\* ================================================================== claims

\* C1: during write_to_file, a crash at any step before the final rename
\* leaves the pre-existing destination file present and byte-for-byte as it
\* was before the call.
C1_CrashLeavesDestination ==
  (proc = "crashed" /\ WrActive /\ wr.pre.exists) => fs.dest = wr.pre

\* C2: whenever the read-back of the temporary file fails, for whatever
\* reason, write_to_file has deleted the temporary file, raises
\* VaultFormatError, and the destination is as it was before the call.
C2_FailedReadbackCleansUp ==
  (wr.pc = "raised" /\ wr.readback \notin {"none", "ok"})
    => /\ ~fs.tmp.exists
       /\ wr.exc = "VaultFormatError"
       /\ fs.dest = wr.pre

\* C3: a reader that opens the destination at any point during a
\* write_to_file call finds a file there: the complete old container or the
\* complete verified new one, never no file.
C3_ReaderSeesOldOrNew ==
  (observed.seen /\ wr.pre.exists)
    => /\ observed.file.exists
       /\ \/ observed.file = wr.pre
          \/ wr.verified /\ observed.file = wr.tmpfile

\* C4: whenever the read-back succeeds, write_to_file completes normally,
\* the destination holds exactly the bytes of the verified temporary file
\* and no temporary file is left, whether or not a file existed at the
\* destination before.
C4_VerifiedSaveCompletes ==
  (wr.verified /\ wr.pc \in {"done", "raised"})
    => /\ wr.pc = "done"
       /\ fs.dest = wr.tmpfile
       /\ ~fs.tmp.exists

\* the container f opens with the tag and a complete iteration count, and
\* the digest of the key stretched from password differs from the stored
\* password-check hash
WrongPassword(f, password) ==
  /\ f.exists
  /\ BytesEq(f.tag, Pws3Tag)
  /\ f.iter.n = 4
  /\ ~BytesEq(f.sha_ps,
              Item(Sha256(_stretch_password(password, f.salt, UnpackIter(f.iter))), 32))

\* C5: read_from_file with a password whose stretched-key digest differs
\* from the stored password-check hash fails with BadPasswordError; no key
\* block is unwrapped and no field block decrypted before it does, and the
\* Vault's header and records stay as they were before the call.
C5_WrongPasswordFailsEarly ==
  (rd.pc # "idle" /\ WrongPassword(rd.file, rd.password))
    => /\ rd.pc \in {"TagCheck", "PasswordVerify", "Failed"}
       /\ rd.pc = "Failed" => rd.exc = "BadPasswordError"
       /\ rd.nunwrap = 0
       /\ rd.ndec = 0
       /\ vaults[rd.obj].header = rd.pre.header
       /\ vaults[rd.obj].records = rd.pre.records

\* a load with a wrong password has failed on a Vault that held records
C5_Witness ==
  /\ rd.pc = "Failed" /\ rd.exc = "BadPasswordError"
  /\ WrongPassword(rd.file, rd.password)
  /\ rd.pre.records # <<>>
  /\ vaults[rd.obj].records = rd.pre.records

\* C6: every run of read_from_file that does not reach Loaded ends by
\* raising one of exactly three kinds of error: VaultVersionError,
\* BadPasswordError or VaultFormatError; that covers every content of the
\* file, a file cut inside the fixed-size members and a declared field
\* length above 1024 included.
C6_FailureIsOneOfThreeErrors ==
  (rd.pc = "Failed" /\ rd.file.exists) => rd.exc \in RuntimeErrors

\* the raw fields of the records, in order
FieldsOf(records) == [i \in 1..Len(records) |-> records[i].raw_fields]

\* C7: for every Vault with at least one record, whose fields the caller
\* set through the string accessors and add_raw_field with values of any
\* length, write_to_file succeeds, and reading the file back into a fresh
\* Vault yields the same header fields and the same records with the same
\* fields.  (Stated for a destination that exists, where the removal of the
\* old file cannot fail.)
C7_SaveThenLoadIsIdentity ==
  (wr.pc \in {"done", "raised"} /\ wr.pre.exists /\ vaults.self.records # <<>>
     /\ ~IsNone(vaults.self.f_iv))
    => /\ wr.pc = "done"
       /\ vaults.tmp.header = vaults.self.header
       /\ FieldsOf(vaults.tmp.records) = FieldsOf(vaults.self.records)

\* a fresh Vault has just loaded, with the password of the save, the file
\* that the last save of a loaded and unmodified Vault produced
ReloadedAfterSave ==
  /\ rd.pc = "Loaded" /\ rd.obj = "self" /\ rd.fresh
  /\ ghost.saved.valid
  /\ rd.file = ghost.saved.file
  /\ rd.password = ghost.saved.password

\* C8: for a Vault produced by a successful read_from_file and not
\* modified since, write_to_file followed by read_from_file (same password,
\* fresh Vault) yields a header and a record sequence in which every field,
\* those of a type other than 0x02-0x06 included, has the type, length and
\* value it had in memory before the save.
C8_LoadedVaultRoundTrips ==
  ReloadedAfterSave
    => /\ vaults.self.header = ghost.saved.header
       /\ FieldsOf(vaults.self.records) = FieldsOf(ghost.saved.records)

\* the reloaded Vault holds a field of an opaque type that spans two blocks
C8_Witness ==
  /\ ReloadedAfterSave
  /\ \E i \in 1..Len(vaults.self.records) :
       \E t \in DOMAIN vaults.self.records[i].raw_fields :
         /\ t \notin KnownTypes
         /\ vaults.self.records[i].raw_fields[t].raw_len > FirstChunk

\* C9: for every container that loads, changing one byte of its encrypted
\* field stream (a block between the IV and the end-of-file marker) or of
\* its trailing 32-byte tag makes read_from_file raise VaultFormatError.
C9_FlippedByteIsFormatError ==
  (rd.pc \in {"Loaded", "Failed"} /\ rd.obj = "self"
     /\ ghost.flip.region \in {"stream", "hmac"}
     /\ ghost.flip.basegood
     /\ rd.file = ghost.flip.result
     /\ rd.password = ghost.flip.password)
    => (rd.pc = "Failed" /\ rd.exc = "VaultFormatError")

\* C10: when read_from_file fails after the field stream has started, the
\* Vault it was called on holds no header field and no record decoded from
\* that file: its header and records are those it had before the call.
\* (Stated for the failures that raise VaultFormatError.)
C10_FailedLoadLeavesVault ==
  (rd.pc = "Failed" /\ rd.exc = "VaultFormatError"
     /\ rd.stage \in {"HeaderFields", "RecordFields", "TagVerify"})
    => /\ vaults[rd.obj].header = rd.pre.header
       /\ vaults[rd.obj].records = rd.pre.records

\* the values of the fields that are not sentinels, concatenated in order
RECURSIVE FedValues(_, _)
FedValues(fields, i) ==
  IF i > Len(fields) THEN <<>>
  ELSE (IF fields[i].raw_type = EndOfRecord THEN <<>> ELSE fields[i].raw_value)
         \o FedValues(fields, i + 1)

\* C11: read_from_file returns normally only if the 32 bytes read after the
\* end-of-file marker are the keyed digest, under the MAC key L, of the
\* values of all decoded header fields followed by those of all decoded
\* record fields, each once and in stream order (the 0xFF sentinels are
\* separators, not fields); a mismatch raises VaultFormatError, never
\* BadPasswordError.
C11_LoadedOnlyWithMatchingTag ==
  /\ rd.pc = "Loaded" =>
       /\ rd.eof >= 1 /\ rd.idx = rd.eof + 1 + (HmacSize \div BlockSize)
       /\ rd.idx - 1 <= Len(rd.file.units)
       /\ SubSeq(rd.file.units, rd.eof + 1, rd.idx - 1)
            = MacBytes(Hmac(UnwrapKey(rd.stretched, rd.file.b3, rd.file.b4),
                            FedValues(rd.decoded, 1)))
  /\ (rd.pc = "Failed" /\ rd.stage = "TagVerify") => rd.exc = "VaultFormatError"

\* a container with a header field and a record has loaded
C11_Witness ==
  /\ rd.pc = "Loaded"
  /\ \E i, j \in 1..Len(rd.decoded) :
       /\ i < j
       /\ rd.decoded[i].raw_type = EndOfRecord
       /\ rd.decoded[j].raw_type # EndOfRecord
       /\ rd.decoded[1].raw_type # EndOfRecord

\* C12: _stretch_password(password, salt, iterations) is exactly
\* iterations + 1 chained hash applications, the first of password + salt,
\* for every iterations >= 0.
C12_StretchIsIterationsPlusOne ==
  calc.op = "_stretch_password"
    => calc.out[1] = [pw |-> calc.args[1], salt |-> calc.args[2], n |-> calc.args[3] + 1]

\* a password has been stretched over several rounds
C12_Witness ==
  /\ calc.op = "_stretch_password"
  /\ calc.args[3] >= 2
  /\ calc.out[1].n = calc.args[3] + 1

\* C16: for every length L in 0..1024 the blocks _write_field_tlv writes for
\* a field of L bytes (5 + L bytes padded to a multiple of 16) are as many
\* as _read_field_tlv consumes for it (1, and floor((L + 4) / 16) more when
\* L > 11): the reader returns the L bytes written and finds the next field
\* where the writer put it.
C16_ReaderStaysAligned ==
  calc.op = "field_tlv"
    => LET field  == calc.args[1]
           L      == field.raw_len
           blocks == calc.out[1]
           first  == calc.out[2]
           second == calc.out[3]
       IN /\ blocks = (5 + L + (BlockSize - 1)) \div BlockSize
          /\ blocks = 1 + (IF L > 11 THEN (L + 4) \div 16 ELSE 0)
          /\ first.res = "field"
          /\ first.next = blocks + 1
          /\ first.ndec = blocks
          /\ Len(first.field.raw_value) = L
          /\ first.field = field
          /\ second.res = "field"
          /\ second.field = calc.args[2]

\* a field of the greatest length has been written and read
C16_Witness ==
  /\ calc.op = "field_tlv"
  /\ calc.args[1].raw_len = MaxFieldLen
  /\ calc.out[2].res = "field"
  /\ calc.out[1] > 1

\* C17: after any sequence of add_raw_field calls with fields a load
\* produced and of assignments through the string accessors, every field of
\* raw_fields has len(raw_value) == raw_len, and the string view of each
\* type 0x02-0x06 that has a field is the decoding of its raw_value; the
\* assertion of _write_field_tlv holds for every field of the Record.
C17_RecordStaysConsistent ==
  calc.op = "Record"
    => \A t \in DOMAIN calc.record.raw_fields :
         LET f == calc.record.raw_fields[t]
         IN /\ Len(f.raw_value) = f.raw_len
            /\ t \in KnownTypes => calc.record.views[t] = Utf8Decode(f.raw_value)

\* a title of one character and two bytes was assigned after another call
C17_Witness ==
  /\ calc.op = "Record"
  /\ calc.nops >= 2
  /\ calc.args = << "set", 3, << 233 >> >>
  /\ calc.record.raw_fields[3].raw_len = 2

\* the block read_from_file is about to hand to _read_field_tlv decrypts
\* faithfully and declares a length above 1024
DeclaresTooLong ==
  /\ rd.pc \in {"HeaderFields", "RecordFields"}
  /\ rd.idx <= Len(FileAt(rd.path).units)
  /\ LET units == FileAt(rd.path).units
         u     == units[rd.idx]
         pmod  == IF rd.idx = 1 THEN vaults[rd.obj].f_iv.mod ELSE units[rd.idx - 1].mod
     IN /\ u.k = "ct" /\ u.key = rd.key_k /\ u.mod = NoMod /\ pmod = NoMod
        /\ UnpackLE32(SubSeq(u.plain, 1, 4)) > MaxFieldLen

\* C13: when _read_field_tlv decrypts a first block whose declared length is
\* above 1024, the field is rejected at once: that one block is the last
\* read and the last decrypted, no Field reaches the load loop, and the
\* Vault gets nothing from it.
C13_OversizedFieldRejectedAtOnce ==
  [][ (DeclaresTooLong /\ rd' # rd)
        => /\ rd'.pc = "Failed" /\ rd'.exc = "SystemExit"
           /\ rd'.idx = rd.idx + 1
           /\ rd'.ndec = rd.ndec + 1
           /\ rd'.decoded = rd.decoded
           /\ rd'.hmac = rd.hmac
           /\ rd'.current_record = rd.current_record
           /\ vaults'[rd.obj].header = vaults[rd.obj].header
           /\ vaults'[rd.obj].records = vaults[rd.obj].records ]_vars

\* a load has ended on a block that declared 1025 bytes
C13_Witness ==
  /\ rd.pc = "Failed" /\ rd.exc = "SystemExit"
  /\ rd.idx >= 2
  /\ rd.file.units[rd.idx - 1].k = "ct"
  /\ rd.file.units[rd.idx - 1].mod = NoMod
  /\ UnpackLE32(SubSeq(rd.file.units[rd.idx - 1].plain, 1, 4)) = MaxFieldLen + 1

\* a Vault with the two members write_to_file assigns blanked
SaveFrame(v) == [v EXCEPT !.f_sha_ps = NoneDig, !.f_hmac = NoneHmac]

\* the file write_to_file has written the boilerplate to
WrittenFile == IF wr.pc = "done" THEN fs.dest ELSE fs.tmp

\* C18: write_to_file on a loaded Vault writes the salt, the iteration
\* count, B1..B4 and the IV as the Vault holds them, and leaves them, the
\* header and the records as they were: it assigns only the password-check
\* hash and the integrity tag.
C18_SaveReusesBoilerplate ==
  (wr.pc # "idle" /\ ~IsNone(wr.vault0.f_iv))
    => /\ SaveFrame(vaults.self) = SaveFrame(wr.vault0)
       /\ wr.pc \in {"fields", "hmac", "readback", "reading", "except", "remove",
                     "rename", "done"}
            => /\ WrittenFile.exists
               /\ WrittenFile.tag = wr.vault0.f_tag
               /\ WrittenFile.salt = wr.vault0.f_salt
               /\ WrittenFile.iter.n = 4
               /\ UnpackIter(WrittenFile.iter) = wr.vault0.f_iter
               /\ WrittenFile.b1 = wr.vault0.f_b1
               /\ WrittenFile.b2 = wr.vault0.f_b2
               /\ WrittenFile.b3 = wr.vault0.f_b3
               /\ WrittenFile.b4 = wr.vault0.f_b4
               /\ WrittenFile.iv = wr.vault0.f_iv

\* a loaded Vault has been saved, and the save assigned its integrity tag
C18_Witness ==
  /\ wr.pc = "done"
  /\ ~IsNone(wr.vault0.f_iv)
  /\ wr.vault0.records # <<>>
  /\ fs.dest.iv = wr.vault0.f_iv
  /\ vaults.self.f_hmac # wr.vault0.f_hmac

\* C19: whenever write_to_file ends without replacing the destination (it
\* raises while writing, the read-back fails or exits, or the removal of the
\* old destination fails), its temporary file no longer exists.
C19_FailedSaveLeavesNoTempFile ==
  wr.pc = "raised" => ~fs.tmp.exists

\* C14: once _read_field_tlv has returned None for the end-of-file marker,
\* no further field block is read or decrypted: the next bytes read are the
\* 32-byte tag.  An end-of-file marker met in the header loop does not lead
\* into the record loop.
C14_NothingReadAfterEofMarker ==
  rd.eof >= 1
    => /\ rd.pc \in {"TagVerify", "Loaded", "Failed"}
       /\ rd.stage = "TagVerify"
       /\ rd.pc = "TagVerify" => rd.idx = rd.eof + 1
       /\ rd.idx <= rd.eof + 1 + (HmacSize \div BlockSize)

\* the index in decoded of the end-of-header sentinel (0: there is none)
HeaderEnd(decoded) ==
  LET S == { i \in 1..Len(decoded) : decoded[i].raw_type = EndOfRecord }
  IN IF S = {} THEN 0 ELSE CHOOSE i \in S : \A k \in S : i <= k

\* the number of sentinels of decoded between the end-of-header sentinel
\* and index j
SentinelsBefore(decoded, j) ==
  Cardinality({ k \in (HeaderEnd(decoded) + 1)..(j - 1) : decoded[k].raw_type = EndOfRecord })

\* C15: after a successful read_from_file into a fresh Vault, records has
\* one record per 0xFF sentinel decoded after the end-of-header sentinel, in
\* stream order, and every other field decoded in the record phase is in
\* the record closed by the next sentinel: none is left out.
C15_EveryRecordFieldIsKept ==
  (rd.pc = "Loaded" /\ rd.obj = "self" /\ rd.fresh /\ HeaderEnd(rd.decoded) > 0)
    => LET d       == rd.decoded
           records == vaults.self.records
       IN /\ Len(records) = SentinelsBefore(d, Len(d) + 1)
          /\ \A j \in (HeaderEnd(d) + 1)..Len(d) :
               d[j].raw_type # EndOfRecord
                 => LET i == SentinelsBefore(d, j) + 1
                    IN /\ i <= Len(records)
                       /\ d[j].raw_type \in DOMAIN records[i].raw_fields
                       /\ records[i].raw_fields[d[j].raw_type] = d[j]

====
